---- MODULE Spec2Model ----
(***************************************************************************)
(* Model of two yt-dlp extractor families:                                 *)
(*   - SheetaEmbedIE   (src/yt_dlp/extractor/sheeta.py)                    *)
(*   - AkibaPassTVIE   (src/yt_dlp/extractor/akibapasstv.py)               *)
(* Every HTTP exchange is one step; the answer of the remote side is an    *)
(* input of the step.  An HTTP answer is its status code: 200 is success,  *)
(* 400..599 an HTTPError, and 0 a failure that carries no HTTP status      *)
(* (transport error, undecodable body).                                    *)
(***************************************************************************)
EXTENDS Integers, Sequences, FiniteSets, TLC

VARIABLES
    \* SheetaEmbedIE instance fields
    _DOMAIN, _API_BASE_URL, _FANCLUB_GROUP_ID,
    _FANCLUB_SITE_ID_AUTH, _FANCLUB_SITE_ID_INFO,
    \* framework parameter ignore_no_formats_error of the running process
    ignore_no_formats_error,
    \* the URL handed to _extract_from_url, and the season page the site
    \* serves, where a run looks at these on their own
    url, season_page,
    \* the running SheetaEmbedIE extraction call
    calls,         \* number of extraction calls started so far
    call,          \* which extraction is running: player, videos or lives
    pc,            \* position of the call
    channel_id,    \* channel slug parsed from the URL, or None
    content_code,  \* content code parsed from the URL, or None
    data_json,     \* the video_page document, once fetched
    live_status,   \* result of _get_live_status
    m3u8_url,      \* the audio resource the content access call returned
    formats,       \* format ids yielded so far by _yield_formats
    channel_info,  \* what _extract_channel_info has gathered
    requests,      \* HTTP requests issued by the call, in order
    signals,       \* login-required / no-formats signals emitted, in order
    error,         \* the exception that ended the call
    result,        \* the info dict returned by the call
    url_qs,        \* query string of the URL of a list extraction
    \* the lazily paged list of the playlist a list extraction returned
    playlist,      \* the playlist and the arguments bound into its page function
    cache,         \* pages fetched so far, in page order
    entries,       \* entries handed to the consumer so far
    list_state,    \* none, open, exhausted or failed
    page_requests, \* page requests the list has issued, in order
    server_items,  \* number of items the listing API holds for the list
    \* AkibaPassTVIE: configuration and the running extraction
    username,      \* configured user name, or None
    session_cookie,\* whether the cookie jar holds _session
    webpage,       \* the watch page as last downloaded
    response,      \* the login response: its marker, "" without marker,
                   \* "False" when the POST returned no page
    login_err      \* what _login returned

\* what no step of an extraction changes
env == <<ignore_no_formats_error, url, season_page>>

fields == <<_DOMAIN, _API_BASE_URL, _FANCLUB_GROUP_ID,
            _FANCLUB_SITE_ID_AUTH, _FANCLUB_SITE_ID_INFO>>
locals == <<channel_id, content_code, data_json, live_status, m3u8_url,
            formats, channel_info, url_qs>>
listVars == <<playlist, cache, entries, list_state, page_requests, server_items>>
akVars == <<username, session_cookie, webpage, response, login_err>>

vars == <<fields, env, calls, call, pc, locals,
          requests, signals, error, result, listVars, akVars>>

----------------------------------------------------------------------------
(* Python values *)

None == "None"

\* Python truthiness of the values the model uses
Truthy(v) == v \notin {None, "False", "", "[]"}

\* repr() of a string or of None
Repr(v) == IF v = None THEN "None" ELSE "'" \o v \o "'"

\* Integer ids are kept as strings of digits.  int_or_none keeps an int and
\* turns anything else into None; the int 0 is falsy.
int_or_none(v) == IF v \in {"0", "1", "7"} THEN v ELSE None
IntTruthy(v) == v \notin {None, "0"}

----------------------------------------------------------------------------
(* HTTP answers *)

Succeeded(o) == o = 200
IsHTTPError(o) == o \in 400..599

\* answers drawn for a plain request: success, and an HTTP error whose status
\* an authenticated call would recognise
PlainAnswers == {200, 404}
\* answers drawn for an authenticated request: success, the four recognised
\* statuses, another HTTP error, and a failure without status
AuthedAnswers == {200, 401, 403, 404, 408, 500, 0}

NoError == [kind |-> "none", msg |-> "", expected |-> FALSE, cause |-> 200]

\* ExtractorError raised by the extractor's own code
ExtractorError(msg, expected) ==
    [kind |-> "ExtractorError", msg |-> msg, expected |-> expected, cause |-> 200]

\* the error _download_json / _download_webpage raise for a failed request
\* (fatal=True): an ExtractorError whose cause is the failure
DownloadFailure(errnote, o) ==
    [kind |-> "download", msg |-> errnote, expected |-> FALSE, cause |-> o]

\* a request: the endpoint, the base URL it is sent to, the POST data, the
\* query parameters, the status of the answer, and what the answer carried
\* where a later step depends on it
Request(api, base, o, data) ==
    [api |-> api, base |-> base, outcome |-> o, data |-> data, query |-> << >>,
     answer |-> None]
QueryRequest(api, base, o, query) ==
    [api |-> api, base |-> base, outcome |-> o, data |-> None, query |-> query,
     answer |-> None]

----------------------------------------------------------------------------
(* Framework signalling primitives (InfoExtractor)                         *)

\* raise_login_required(msg, metadata_available, method): with
\* metadata_available and ignore_no_formats_error it only warns and returns,
\* otherwise it raises an expected ExtractorError
LoginRequiredRaises(metadata_available, ignore) == ~(metadata_available /\ ignore)

\* raise_no_formats(msg, expected=True): warns under
\* ignore_no_formats_error, raises otherwise
NoFormatsRaises(ignore) == ~ignore

\* a signal: its kind, the place of the extractor that emitted it, the
\* message handed to the framework, and whether the framework raised
Signal(kind, src, msg, raised) ==
    [kind |-> kind, src |-> src, msg |-> msg, raised |-> raised]

----------------------------------------------------------------------------
(* Bounds and inputs.  The runs explored make at most MaxCalls extraction  *)
(* calls on an instance: all player-page calls, or all list calls, or all  *)
(* AkibaPassTV calls.  Of the lists the list calls return, the first is    *)
(* the one whose consumption is followed.  Spec makes no call once a list  *)
(* exists; SpecShared interleaves list calls with the consumption of the   *)
(* list.                                                                   *)

\* extraction calls made on one extractor instance
MaxCalls == 2

\* largest number of items the listing API holds for a channel list
MaxItems == 26

\* sizes of the channel lists the listing API holds: empty, less than a
\* page, exactly one page, one item more, and the largest
ListSizes == {0, 5, 12, 13, MaxItems}

Domains == {"nicochannel.jp"}
\* domains of the list URLs
ListDomains == {"nicochannel.jp", "qlover.jp"}
Channels == {None, "kaorin"}
ContentCodes == {"sm89Hd"}
Usernames == {None, "user"}

\* first values of tag, sort and vodType in the query string of a list URL;
\* None is a key the URL does not carry
UrlQueries == [tag : {None, "music"}, sort : {None, "display_date"},
               vodType : {None, "4"}]
NoQs == [tag |-> None, sort |-> None, vodType |-> None]
\* query strings of the live list URLs: none, and one carrying every key
LiveUrlQueries == {NoQs, [tag |-> "music", sort |-> "display_date", vodType |-> "4"]}

\* site/settings.json of a domain
SiteSettings(dom) ==
    [api_base_url |-> "https://api." \o dom \o "/fc",
     fanclub_group_id |-> "1",
     fanclub_site_id |-> "1"]

\* ids the channel_domain lookup may answer with
LookupIds == {None, "0", "7"}

Timestamps == {None, "2024-01-01 10:00:00"}
Flags == {"False", "True"}

\* audio_filename_transcoded_list of every video page of the model
TranscodedList ==
    << [url |-> "https://cdn/free.m3u8", value |-> "audio_free"],
       [url |-> "https://cdn/paid.m3u8", value |-> "audio_paid"] >>

\* the video_page documents the API may answer with
VideoPages ==
    [type : {"vod", "live", "movie"},
     live_started_at : Timestamps,
     live_finished_at : Timestamps,
     allow_dvr_flg : Flags,
     convert_to_vod_flg : Flags,
     video : {None, "video"},
     audio : {None, "audio"},
     video_free_periods : {None, "[]", "[period]"},
     title : {"title"},
     comment_group_id : {"group1"}]

NoData ==
    [type |-> None, live_started_at |-> None, live_finished_at |-> None,
     allow_dvr_flg |-> None, convert_to_vod_flg |-> None, video |-> None,
     audio |-> None, video_free_periods |-> None, title |-> None,
     comment_group_id |-> None]

\* session ids and content resources the authenticated calls may answer with
SessionIds == {None, "session1"}
Resources == {None, "https://cdn/free.m3u8", "https://cdn/paid.m3u8",
              "https://cdn/other.m3u8"}

NoChannelInfo ==
    [channel |-> None, channel_id |-> None, channel_url |-> None,
     age_limit |-> None]

\* the comments of an item: whether the comment fetch ran to its end, and
\* the comments it yielded
NoComments == [fetched |-> FALSE, list |-> << >>]
Comments(list) == [fetched |-> TRUE, list |-> list]

NoResult ==
    [returned |-> FALSE, id |-> None, title |-> None, live_status |-> None,
     formats |-> << >>, channel |-> None, channel_id |-> None,
     comments |-> NoComments, entries |-> << >>]

----------------------------------------------------------------------------
(* SheetaEmbedIE._get_live_status *)

\* _get_live_status with the flag test written "not (dvr or convert)"
GetLiveStatus_FlagsOr(dj) ==
    IF dj.type = "vod" THEN
        [status |-> IF Truthy(dj.live_finished_at) THEN "was_live" ELSE "not_live",
         error |-> NoError]
    ELSE IF dj.type = "live" THEN
        IF ~Truthy(dj.live_started_at) THEN
            [status |-> "is_upcoming", error |-> NoError]
        ELSE IF ~Truthy(dj.live_finished_at) THEN
            [status |-> "is_live", error |-> NoError]
        ELSE IF ~(Truthy(dj.allow_dvr_flg) \/ Truthy(dj.convert_to_vod_flg)) THEN
            [status |-> None,
             error |-> ExtractorError(
                 "Live was ended, there is no video for download", TRUE)]
        ELSE
            [status |-> "was_live", error |-> NoError]
    ELSE
        [status |-> None,
         error |-> ExtractorError("Unknown type: " \o Repr(dj.type), FALSE)]

\* _get_live_status with the live branch testing live_started_at before the
\* type, so that a vod without start timestamp counts as upcoming
GetLiveStatus_StartFirst(dj) ==
    IF ~Truthy(dj.live_started_at) /\ dj.type \in {"vod", "live"} THEN
        [status |-> "is_upcoming", error |-> NoError]
    ELSE IF dj.type = "vod" THEN
        [status |-> IF Truthy(dj.live_finished_at) THEN "was_live" ELSE "not_live",
         error |-> NoError]
    ELSE IF dj.type = "live" THEN
        IF ~Truthy(dj.live_finished_at) THEN
            [status |-> "is_live", error |-> NoError]
        ELSE IF ~(Truthy(dj.allow_dvr_flg) /\ Truthy(dj.convert_to_vod_flg)) THEN
            [status |-> None,
             error |-> ExtractorError(
                 "Live was ended, there is no video for download", TRUE)]
        ELSE
            [status |-> "was_live", error |-> NoError]
    ELSE
        [status |-> None,
         error |-> ExtractorError("Unknown type: " \o Repr(dj.type), FALSE)]

GetLiveStatus(dj) ==
    IF dj.type = "vod" THEN
        [status |-> IF Truthy(dj.live_finished_at) THEN "was_live" ELSE "not_live",
         error |-> NoError]
    ELSE IF dj.type = "live" THEN
        IF ~Truthy(dj.live_started_at) THEN
            [status |-> "is_upcoming", error |-> NoError]
        ELSE IF ~Truthy(dj.live_finished_at) THEN
            [status |-> "is_live", error |-> NoError]
        ELSE IF ~(Truthy(dj.allow_dvr_flg) /\ Truthy(dj.convert_to_vod_flg)) THEN
            [status |-> None,
             error |-> ExtractorError(
                 "Live was ended, there is no video for download", TRUE)]
        ELSE
            [status |-> "was_live", error |-> NoError]
    ELSE
        [status |-> None,
         error |-> ExtractorError("Unknown type: " \o Repr(dj.type), FALSE)]

----------------------------------------------------------------------------
(* SheetaEmbedIE._call_api_authed *)

expected_code_msg ==
    (401 :> "Invalid token") @@ (403 :> "Login required") @@
    (404 :> "Members-only content") @@ (408 :> "Outdated token")

\* _call_api_authed with the messages of 403 and 404 exchanged
expected_code_msg_Swapped ==
    (401 :> "Invalid token") @@ (403 :> "Members-only content") @@
    (404 :> "Login required") @@ (408 :> "Outdated token")

CallApiAuthed_Swapped(errnote, o) ==
    IF Succeeded(o) THEN
        [kind |-> "return", msg |-> "", error |-> NoError]
    ELSE IF ~IsHTTPError(o) \/ o \notin DOMAIN expected_code_msg_Swapped THEN
        [kind |-> "raise", msg |-> "", error |-> DownloadFailure(errnote, o)]
    ELSE
        [kind |-> "login_required",
         msg |-> expected_code_msg_Swapped[o] \o " (" \o ToString(o) \o ")",
         error |-> NoError]

\* _call_api_authed testing only that the cause is an HTTPError: every HTTP
\* status becomes a login-required signal
CallApiAuthed_AnyStatus(errnote, o) ==
    IF Succeeded(o) THEN
        [kind |-> "return", msg |-> "", error |-> NoError]
    ELSE IF ~IsHTTPError(o) THEN
        [kind |-> "raise", msg |-> "", error |-> DownloadFailure(errnote, o)]
    ELSE
        [kind |-> "login_required",
         msg |-> (IF o \in DOMAIN expected_code_msg
                  THEN expected_code_msg[o] ELSE "Login required")
                 \o " (" \o ToString(o) \o ")",
         error |-> NoError]

\* _call_api_authed without the status test: every failure is re-raised
CallApiAuthed_Reraise(errnote, o) ==
    IF Succeeded(o) THEN
        [kind |-> "return", msg |-> "", error |-> NoError]
    ELSE
        [kind |-> "raise", msg |-> "", error |-> DownloadFailure(errnote, o)]

\* What the call does with answer o of the request: return the document,
\* hand a message to raise_login_required, or re-raise the download error.
CallApiAuthed(errnote, o) ==
    IF Succeeded(o) THEN
        [kind |-> "return", msg |-> "", error |-> NoError]
    ELSE IF ~IsHTTPError(o) \/ o \notin DOMAIN expected_code_msg THEN
        [kind |-> "raise", msg |-> "", error |-> DownloadFailure(errnote, o)]
    ELSE
        [kind |-> "login_required",
         msg |-> expected_code_msg[o] \o " (" \o ToString(o) \o ")",
         error |-> NoError]

----------------------------------------------------------------------------
(* SheetaEmbedIE: one extraction call, request by request *)

ApiBase == _API_BASE_URL
SiteBase == "https://" \o _DOMAIN

\* the call ends with exception e; the extractor is idle again
Raise(e) ==
    /\ error' = e
    /\ pc' = "idle"

\* position after _extract_base_info has finished
AfterBaseInfo == IF call = "player" THEN "video_page" ELSE "base_info"

\* positions inside _yield_formats
AfterVideo(dj) == IF Truthy(dj.audio) THEN "content_access" ELSE "base_info"
\* _yield_formats going straight to the stream when an earlier call on the
\* instance already held a ticket
EnterYieldFormats_ReuseTicket(dj) ==
    IF Truthy(dj.video)
    THEN (IF calls > 1 THEN "m3u8" ELSE "session")
    ELSE AfterVideo(dj)

EnterYieldFormats(dj) == IF Truthy(dj.video) THEN "session" ELSE AfterVideo(dj)

\* _extract_base_info entered with settings kept from an earlier call: the
\* settings request is skipped when the API base URL is already known
BaseInfoEntry_Reuse(ch) ==
    IF _API_BASE_URL # None /\ Truthy(ch) THEN "lookup" ELSE "settings"

\* _extract_base_info starts with the site settings request, whatever the
\* instance fields hold
BaseInfoEntry(ch) == "settings"

\* the state every top-level extraction call starts from
BeginCall(kind, dom, ch, code, qs) ==
    /\ pc = "idle"
    /\ calls < MaxCalls
    /\ calls' = calls + 1
    /\ call' = kind
    /\ _DOMAIN' = dom
    /\ channel_id' = ch
    /\ content_code' = code
    /\ url_qs' = qs
    /\ data_json' = NoData
    /\ live_status' = None
    /\ m3u8_url' = None
    /\ formats' = << >>
    /\ channel_info' = NoChannelInfo
    /\ requests' = << >>
    /\ signals' = << >>
    /\ error' = NoError
    /\ result' = NoResult
    /\ pc' = BaseInfoEntry(ch)
    /\ UNCHANGED <<_API_BASE_URL, _FANCLUB_GROUP_ID, _FANCLUB_SITE_ID_AUTH,
                   _FANCLUB_SITE_ID_INFO, env, listVars,
                   akVars>>

\* _extract_player_page, up to the call of _extract_base_info
StartPlayerPage(dom, ch, code) ==
    /\ call \in {"none", "player"}
    /\ BeginCall("player", dom, ch, code, NoQs)

\* _extract_video_list_page, up to the call of _extract_base_info
StartVideoListPage(dom, ch, qs) ==
    /\ call \in {"none", "videos", "lives"}
    /\ list_state \in {"none", "open"}
    /\ BeginCall("videos", dom, ch, None, qs)

\* _extract_live_list_page, up to the call of _extract_base_info
StartLiveListPage(dom, ch, qs) ==
    /\ call \in {"none", "videos", "lives"}
    /\ list_state \in {"none", "open"}
    /\ BeginCall("lives", dom, ch, None, qs)

\* _extract_base_info: the site settings request and the assignments after it
FetchSiteSettings(o) ==
    /\ pc = "settings"
    /\ requests' = Append(requests, Request("site/settings.json", SiteBase, o, None))
    /\ IF Succeeded(o) THEN
           LET site_settings == SiteSettings(_DOMAIN) IN
           /\ _API_BASE_URL' = site_settings.api_base_url
           /\ _FANCLUB_GROUP_ID' = site_settings.fanclub_group_id
           /\ _FANCLUB_SITE_ID_AUTH' = site_settings.fanclub_site_id
           /\ IF Truthy(channel_id) THEN
                  /\ pc' = "lookup"
                  /\ UNCHANGED _FANCLUB_SITE_ID_INFO
              ELSE
                  /\ _FANCLUB_SITE_ID_INFO' = site_settings.fanclub_site_id
                  /\ pc' = AfterBaseInfo
           /\ UNCHANGED error
       ELSE
           /\ Raise(DownloadFailure("Unable to fetch site settings", o))
           /\ UNCHANGED <<_API_BASE_URL, _FANCLUB_GROUP_ID,
                          _FANCLUB_SITE_ID_AUTH, _FANCLUB_SITE_ID_INFO>>
    /\ UNCHANGED <<_DOMAIN, env, calls, call, locals,
                   signals, result, listVars, akVars>>

\* _find_fanclub_site_id and the assignment of its result
FindFanclubSiteId(o, id) ==
    /\ pc = "lookup"
    /\ requests' = Append(requests,
           [Request("content_providers/channel_domain", ApiBase, o, None)
               EXCEPT !.answer = IF Succeeded(o) THEN id ELSE None])
    /\ IF ~Succeeded(o) THEN
           /\ Raise(DownloadFailure("Unable to fetch channel list", o))
           /\ UNCHANGED _FANCLUB_SITE_ID_INFO
       ELSE IF IntTruthy(int_or_none(id)) THEN
           /\ _FANCLUB_SITE_ID_INFO' = int_or_none(id)
           /\ pc' = AfterBaseInfo
           /\ UNCHANGED error
       ELSE
           /\ Raise(ExtractorError(
                  "Channel " \o channel_id \o " does not exist", TRUE))
           /\ UNCHANGED _FANCLUB_SITE_ID_INFO
    /\ UNCHANGED <<_DOMAIN, _API_BASE_URL, _FANCLUB_GROUP_ID,
                   _FANCLUB_SITE_ID_AUTH, env, calls, call,
                   locals, signals, result, listVars, akVars>>

\* _extract_player_page: the video page request, _get_live_status and the
\* is_upcoming branch
FetchVideoPage(o, dj) ==
    /\ pc = "video_page"
    /\ requests' = Append(requests, Request("video_pages", ApiBase, o, None))
    /\ IF ~Succeeded(o) THEN
           /\ Raise(DownloadFailure("Unable to fetch video page info", o))
           /\ UNCHANGED <<data_json, live_status, signals>>
       ELSE
           LET ls == GetLiveStatus(dj) IN
           /\ data_json' = dj
           /\ live_status' = ls.status
           /\ IF ls.error # NoError THEN
                  /\ Raise(ls.error)
                  /\ UNCHANGED signals
              ELSE IF ls.status = "is_upcoming" THEN
                  LET raised == NoFormatsRaises(ignore_no_formats_error) IN
                  /\ signals' = Append(signals,
                         Signal("no_formats", "is_upcoming",
                                "This event has not started yet", raised))
                  /\ IF raised
                     THEN Raise(ExtractorError("This event has not started yet", TRUE))
                     ELSE /\ pc' = EnterYieldFormats(dj)
                          /\ UNCHANGED error
              ELSE
                  /\ pc' = EnterYieldFormats(dj)
                  /\ UNCHANGED <<signals, error>>
    /\ UNCHANGED <<fields, env, calls, call, channel_id,
                   content_code, formats, channel_info, url_qs, m3u8_url, result,
                   listVars, akVars>>

\* payload of the session id request chosen by the status alone
SessionPayload_AnyWasLive(dj, ls) ==
    IF ls = "was_live" THEN "{broadcast_type: dvr}" ELSE "{}"

\* payload of the session id request
SessionPayload(dj, ls) ==
    IF dj.type = "live" /\ ls = "was_live" THEN "{broadcast_type: dvr}" ELSE "{}"

\* _yield_formats: the session id request through _call_api_authed
GetSessionId(o, session_id) ==
    /\ pc = "session"
    /\ requests' = Append(requests,
           [Request("session_ids", ApiBase, o, SessionPayload(data_json, live_status))
               EXCEPT !.answer = IF Succeeded(o) THEN session_id ELSE None])
    /\ LET r == CallApiAuthed("Unable to get session id", o) IN
       IF r.kind = "raise" THEN
           /\ Raise(r.error)
           /\ UNCHANGED signals
       ELSE IF r.kind = "login_required" THEN
           LET raised == LoginRequiredRaises(TRUE, ignore_no_formats_error) IN
           /\ signals' = Append(signals,
                  Signal("login_required", "session_ids", r.msg, raised))
           /\ IF raised
              THEN Raise(ExtractorError(r.msg, TRUE))
              ELSE /\ pc' = AfterVideo(data_json)
                   /\ UNCHANGED error
       ELSE
           /\ pc' = IF Truthy(session_id) THEN "m3u8" ELSE AfterVideo(data_json)
           /\ UNCHANGED <<signals, error>>
    /\ UNCHANGED <<fields, env, calls, call, locals, result,
                   listVars, akVars>>

\* _yield_formats: _extract_m3u8_formats on the authenticated stream URL
ExtractM3u8Formats(o) ==
    /\ pc = "m3u8"
    /\ requests' = Append(requests,
           Request("m3u8", "video_stream.authenticated_url", o, None))
    /\ IF Succeeded(o) THEN
           /\ formats' = Append(formats, "hls")
           /\ pc' = AfterVideo(data_json)
           /\ UNCHANGED error
       ELSE
           /\ Raise(DownloadFailure("Failed to download m3u8 information", o))
           /\ UNCHANGED formats
    /\ UNCHANGED <<fields, env, calls, call, channel_id,
                   content_code, data_json, live_status, channel_info, url_qs, m3u8_url,
                   signals, result, listVars, akVars>>

\* video_filename_type of the first transcoded-list entry whose url is the
\* resource, or None
AudioType(list, resource) ==
    LET hits == {i \in DOMAIN list : list[i].url = resource} IN
    IF hits = {} THEN None
    ELSE list[CHOOSE i \in hits : \A j \in hits : i <= j].value

\* message of the login-required signal for a free audio, with the two
\* texts exchanged
AudioFreeMsg_Exchanged(dj) ==
    "You have no right to access the paid content. " \o
    (IF Truthy(dj.video_free_periods)
     THEN "This audio may be completely blank"
     ELSE "There may be some silent parts in this audio")

\* message of the login-required signal for a free audio
AudioFreeMsg(dj) ==
    "You have no right to access the paid content. " \o
    (IF Truthy(dj.video_free_periods)
     THEN "There may be some silent parts in this audio"
     ELSE "This audio may be completely blank")

\* _yield_formats: the content access request and the audio format
GetContentAccess(o, resource) ==
    /\ pc = "content_access"
    /\ requests' = Append(requests, Request("content_access", ApiBase, o, None))
    /\ m3u8_url' = IF Succeeded(o) THEN resource ELSE None
    /\ LET r == CallApiAuthed("Unable to get content resource", o) IN
       IF r.kind = "raise" THEN
           /\ Raise(r.error)
           /\ UNCHANGED <<signals, formats>>
       ELSE IF r.kind = "login_required" THEN
           LET raised == LoginRequiredRaises(TRUE, ignore_no_formats_error) IN
           /\ signals' = Append(signals,
                  Signal("login_required", "content_access", r.msg, raised))
           /\ UNCHANGED formats
           /\ IF raised
              THEN Raise(ExtractorError(r.msg, TRUE))
              ELSE /\ pc' = "base_info"
                   /\ UNCHANGED error
       ELSE IF ~Truthy(resource) THEN
           /\ pc' = "base_info"
           /\ UNCHANGED <<signals, formats, error>>
       ELSE
           LET audio_type == AudioType(TranscodedList, resource)
               raised == LoginRequiredRaises(TRUE, ignore_no_formats_error) IN
           IF audio_type = "audio_free" THEN
               /\ signals' = Append(signals,
                      Signal("login_required", "audio_free",
                             AudioFreeMsg(data_json), raised))
               /\ IF raised
                  THEN /\ Raise(ExtractorError(AudioFreeMsg(data_json), TRUE))
                       /\ UNCHANGED formats
                  ELSE /\ formats' = Append(formats, audio_type)
                       /\ pc' = "base_info"
                       /\ UNCHANGED error
           ELSE
               /\ formats' = Append(formats, audio_type)
               /\ pc' = "base_info"
               /\ UNCHANGED <<signals, error>>
    /\ UNCHANGED <<fields, env, calls, call, channel_id,
                   content_code, data_json, live_status, channel_info, url_qs,
                   result, listVars, akVars>>

\* _extract_channel_info: _channel_base_info (fatal=False)
ChannelBaseInfo(o, name) ==
    /\ pc = "base_info"
    /\ requests' = Append(requests, Request("page_base_info", ApiBase, o, None))
    /\ channel_info' =
           [channel_info EXCEPT
               !.channel = IF Succeeded(o) THEN name ELSE None,
               !.channel_id = IF Truthy(channel_id)
                              THEN _DOMAIN \o "/" \o channel_id ELSE _DOMAIN,
               !.channel_url = IF Truthy(channel_id)
                               THEN "https://" \o _DOMAIN \o "/" \o channel_id
                               ELSE "https://" \o _DOMAIN]
    /\ pc' = "user_info"
    /\ UNCHANGED <<fields, env, calls, call, channel_id,
                   content_code, data_json, live_status, formats, url_qs, m3u8_url,
                   signals, error, result, listVars, akVars>>

\* _extract_channel_info: _channel_user_info (fatal=False)
ChannelUserInfo(o, age) ==
    /\ pc = "user_info"
    /\ requests' = Append(requests, Request("user_info", ApiBase, o, "null"))
    /\ channel_info' = [channel_info EXCEPT
           !.age_limit = IF Succeeded(o) THEN int_or_none(age) ELSE None]
    /\ pc' = "return"
    /\ UNCHANGED <<fields, env, calls, call, channel_id,
                   content_code, data_json, live_status, formats, url_qs, m3u8_url,
                   signals, error, result, listVars, akVars>>

\* the return of _extract_player_page
ReturnPlayerPage ==
    /\ pc = "return"
    /\ call = "player"
    /\ result' = [returned |-> TRUE,
                  id |-> content_code,
                  title |-> data_json.title,
                  live_status |-> live_status,
                  formats |-> formats,
                  channel |-> channel_info.channel,
                  channel_id |-> channel_info.channel_id,
                  comments |-> NoComments,
                  entries |-> << >>]
    /\ pc' = "idle"
    /\ UNCHANGED <<fields, env, calls, call, locals,
                   requests, signals, error, listVars, akVars>>

----------------------------------------------------------------------------
(* SheetaEmbedIE: the comments of a returned item, fetched by the post     *)
(* extractor _get_comments(content_code, comment_group_id)                 *)

\* largest number of comments in an answer of the comment history endpoint
MaxComments == 2

\* bodies the comment history endpoint may answer with: a body that is not
\* JSON, or the JSON list of the first n comments
CommentLists == { [i \in 1..n |-> "comment" \o ToString(i)] : n \in 0..MaxComments }
CommentBodies ==
    {[json |-> FALSE, list |-> << >>]} \cup {[json |-> TRUE, list |-> l] : l \in CommentLists}
NoBody == [json |-> FALSE, list |-> << >>]

\* _download_json_handle(expected_status=404): a 404 answer is downloaded
\* like a 200 one
HistoryDownloaded(o) == o \in {200, 404}

\* the test of urlh.status with the rate-limit answer never recognised
RateLimited_Never(o) == FALSE

\* `if urlh.status == 404`
RateLimited(o) == o = 404

\* _get_comments: the test of comment_group_id
GetComments ==
    /\ pc = "comments"
    /\ IF ~Truthy(data_json.comment_group_id)
       THEN pc' = "idle"
       ELSE pc' = "comment_token"
    /\ UNCHANGED <<fields, env, calls, call, locals, requests, signals, error,
                   result, listVars, akVars>>

\* _get_comments: the comment token request
GetCommentToken(o) ==
    /\ pc = "comment_token"
    /\ requests' = Append(requests, Request("comments_user_token", ApiBase, o, None))
    /\ IF Succeeded(o)
       THEN pc' = "comment_history" /\ UNCHANGED error
       ELSE Raise(DownloadFailure("Unable to get comment token", o))
    /\ UNCHANGED <<fields, env, calls, call, locals, signals, result, listVars,
                   akVars>>

\* _get_comments: the comment history request, the rate-limit test and the
\* comments yielded
FetchCommentHistory(o, body) ==
    /\ pc = "comment_history"
    /\ requests' = Append(requests,
           [api |-> "messages.history", base |-> "https://comm-api.sheeta.com",
            outcome |-> o, data |-> "token, group_id",
            query |-> ("sort_direction" :> "asc") @@ ("limit" :> "120"),
            answer |-> IF HistoryDownloaded(o) THEN body ELSE NoBody])
    /\ IF ~HistoryDownloaded(o) THEN
           /\ Raise(DownloadFailure("Unable to fetch comments", o))
           /\ UNCHANGED <<signals, result>>
       ELSE IF ~body.json THEN
           /\ Raise(ExtractorError("Unable to fetch comments: Failed to parse JSON", FALSE))
           /\ UNCHANGED <<signals, result>>
       ELSE IF RateLimited(o) THEN
           /\ signals' = Append(signals,
                  Signal("warning", "comments",
                         "Unable to fetch comments due to rate limit", FALSE))
           /\ result' = [result EXCEPT !.comments = Comments(<< >>)]
           /\ pc' = "idle"
           /\ UNCHANGED error
       ELSE
           /\ result' = [result EXCEPT !.comments = Comments(body.list)]
           /\ pc' = "idle"
           /\ UNCHANGED <<signals, error>>
    /\ UNCHANGED <<fields, env, calls, call, locals, listVars, akVars>>

----------------------------------------------------------------------------
(* SheetaEmbedIE: channel video and live lists *)

_LIST_PAGE_SIZE == 12

\* filter_dict: the dict without the keys whose value is None
filter_dict(d) == [k \in {x \in DOMAIN d : d[x] # None} |-> d[k]]

\* traverse_obj(qs, (key, 0), default=...): the first value of the key in the
\* query string, or the default
FirstOr(v, default) == IF v = None THEN default ELSE v

\* filters of a video list with '-display_date' spelled 'display_date'
VideoListQuery_SortDefault(qs) ==
    filter_dict(("tag" :> qs.tag)
                @@ ("sort" :> FirstOr(qs.sort, "display_date"))
                @@ ("vod_type" :> FirstOr(qs.vodType, "0")))

\* _extract_video_list_page: the filters bound into the page function
VideoListQuery(qs) ==
    filter_dict(("tag" :> qs.tag)
                @@ ("sort" :> FirstOr(qs.sort, "-display_date"))
                @@ ("vod_type" :> FirstOr(qs.vodType, "0")))

\* _extract_live_list_page: the filters bound into the page function
LiveListQuery == ("live_type" :> 4)

\* query of a page request that sends the page index as it is
FetchPagedQuery_PageIndex(query, page) ==
    (("page" :> page) @@ ("per_page" :> _LIST_PAGE_SIZE)) @@ query

\* _fetch_paged_channel_video_list: {**query, 'page': page + 1,
\* 'per_page': _LIST_PAGE_SIZE}
FetchPagedQuery(query, page) ==
    (("page" :> page + 1) @@ ("per_page" :> _LIST_PAGE_SIZE)) @@ query

\* _fetch_paged_channel_video_list: the URL result of a content code, built
\* from the instance's domain at the time the page is fetched
EntryUrl(channel, code) ==
    IF Truthy(channel)
    THEN "https://" \o _DOMAIN \o "/" \o channel \o "/video/" \o code
    ELSE "https://" \o _DOMAIN \o "/video/" \o code

\* the listing API: the content codes of page `page` (counted from 1) of a
\* list of m items, per_page items a page
ServerPage(m, page, per_page) ==
    LET first == (page - 1) * per_page + 1
        last == IF page * per_page < m THEN page * per_page ELSE m
    IN  IF page < 1 \/ last < first THEN << >>
        ELSE [i \in 1..(last - first + 1) |-> "sm" \o ToString(first + i - 1)]

NoPlaylist ==
    [api |-> None, path |-> None, query |-> << >>, channel |-> None,
     id |-> None, title |-> None,
     url |-> [domain |-> None, channel |-> None, qs |-> NoQs]]

\* playlist_result(OnDemandPagedList(functools.partial(
\*     self._fetch_paged_channel_video_list, path, query, channel_id, item_id),
\*     _LIST_PAGE_SIZE), playlist_id, playlist_title)
NewPlaylist(api, query, suffix) ==
    [api |-> api,
     path |-> "fanclub_sites/" \o _FANCLUB_SITE_ID_INFO \o "/" \o api,
     query |-> query,
     channel |-> channel_id,
     id |-> channel_info.channel_id \o "/" \o suffix,
     title |-> channel_info.channel \o "-" \o suffix,
     url |-> [domain |-> _DOMAIN, channel |-> channel_id, qs |-> url_qs]]

ReturnList(pl, m) ==
    /\ pc = "return"
    /\ IF list_state = "none" THEN
           /\ playlist' = pl
           /\ cache' = << >>
           /\ entries' = << >>
           /\ list_state' = "open"
           /\ page_requests' = << >>
           /\ server_items' = m
       ELSE
           UNCHANGED listVars
    /\ result' = [NoResult EXCEPT !.returned = TRUE, !.id = pl.id,
                                   !.title = pl.title]
    /\ pc' = "idle"
    /\ UNCHANGED <<fields, env, calls, call, locals,
                   requests, signals, error, akVars>>

\* the return of _extract_video_list_page; the listing API holds m items
ReturnVideoList(m) ==
    /\ call = "videos"
    /\ ReturnList(NewPlaylist("video_pages", VideoListQuery(url_qs), "videos"), m)

\* the return of _extract_live_list_page; the listing API holds m items
ReturnLiveList(m) ==
    /\ call = "lives"
    /\ ReturnList(NewPlaylist("live_pages", LiveListQuery, "lives"), m)

\* The consumer asks the playlist for its next entry.  OnDemandPagedList
\* calls the page function for the page holding the entry unless that page
\* is cached; _fetch_paged_channel_video_list issues one request for it.
NextEntry(o) ==
    /\ pc = "idle"
    /\ list_state = "open"
    /\ LET n == Len(entries)
           k == n \div _LIST_PAGE_SIZE
           off == n % _LIST_PAGE_SIZE
           cached == k < Len(cache)
           q == FetchPagedQuery(playlist.query, k)
           codes == ServerPage(server_items, q["page"], q["per_page"])
           page == IF cached THEN cache[k + 1]
                   ELSE [i \in DOMAIN codes |-> EntryUrl(playlist.channel, codes[i])]
       IN
       IF cached THEN
           /\ IF off < Len(page)
              THEN entries' = Append(entries, page[off + 1]) /\ UNCHANGED list_state
              ELSE list_state' = "exhausted" /\ UNCHANGED entries
           /\ UNCHANGED <<page_requests, cache, error>>
       ELSE
           /\ page_requests' = Append(page_requests,
                  QueryRequest(playlist.path, ApiBase, o, q))
           /\ IF ~Succeeded(o) THEN
                  /\ list_state' = "failed"
                  /\ error' = DownloadFailure("Unable to fetch channel info", o)
                  /\ UNCHANGED <<cache, entries>>
              ELSE
                  /\ cache' = Append(cache, page)
                  /\ IF off < Len(page)
                     THEN entries' = Append(entries, page[off + 1])
                          /\ UNCHANGED list_state
                     ELSE list_state' = "exhausted" /\ UNCHANGED entries
                  /\ UNCHANGED error
    /\ UNCHANGED <<fields, env, calls, call, pc, locals,
                   requests, signals, result, playlist, server_items, akVars>>

----------------------------------------------------------------------------
(* SheetaEmbedIE._extract_from_url: the dispatch on the path of the URL and *)
(* the match of the selected extraction's pattern                           *)

\* `needle in text` on strings
Contains(text, needle) ==
    \E i \in 1..(Len(text) - Len(needle) + 1) :
        SubSeq(text, i, i + Len(needle) - 1) = needle

StartsWith(text, prefix) ==
    Len(text) >= Len(prefix) /\ SubSeq(text, 1, Len(prefix)) = prefix

\* A URL is kept as its domain and the segments of its path: the segments
\* in front of the channel slug (none in the URLs of the site), the slug or
\* None, and the tail that names the page.
UrlSegments(u) ==
    u.prefix \o (IF u.channel = None THEN << >> ELSE << u.channel >>) \o u.tail

RECURSIVE JoinPath(_)
JoinPath(segs) ==
    IF segs = << >> THEN "" ELSE "/" \o Head(segs) \o JoinPath(Tail(segs))

\* urllib.parse.urlparse(url).path
UrlPath(u) == JoinPath(UrlSegments(u))

NoMatch == [matched |-> FALSE, domain |-> None, channel |-> None, code |-> None]

\* re.match(r'https?://(?P<domain>[\w.-]+)(/(?P<channel>[\w.-]+))?/<word>', url)
\* for word 'videos' or 'lives': the channel group is tried first, then the
\* pattern without it; the pattern is not anchored at its end
MatchListUrl(u, word) ==
    LET segs == UrlSegments(u) IN
    IF Len(segs) >= 2 /\ StartsWith(segs[2], word) THEN
        [matched |-> TRUE, domain |-> u.domain, channel |-> segs[1], code |-> None]
    ELSE IF Len(segs) >= 1 /\ StartsWith(segs[1], word) THEN
        [matched |-> TRUE, domain |-> u.domain, channel |-> None, code |-> None]
    ELSE NoMatch

\* the content codes of the model are 'sm' followed by word characters only
IsContentCode(seg) == StartsWith(seg, "sm") /\ Len(seg) > 2

\* re.match(r'https?://(?P<domain>[\w.-]+)(/(?P<channel>[\w.-]+))?'
\*          r'/(?:live|video|audio)/(?P<code>sm\w+)', url)
MatchPlayerUrl(u) ==
    LET segs == UrlSegments(u)
        kinds == {"live", "video", "audio"} IN
    IF Len(segs) >= 3 /\ segs[2] \in kinds /\ IsContentCode(segs[3]) THEN
        [matched |-> TRUE, domain |-> u.domain, channel |-> segs[1], code |-> segs[3]]
    ELSE IF Len(segs) >= 2 /\ segs[1] \in kinds /\ IsContentCode(segs[2]) THEN
        [matched |-> TRUE, domain |-> u.domain, channel |-> None, code |-> segs[2]]
    ELSE NoMatch

\* _extract_from_url: '/videos' in path, elif '/lives' in path, else player
ExtractFromUrl(u) ==
    IF Contains(UrlPath(u), "/videos") THEN "videos"
    ELSE IF Contains(UrlPath(u), "/lives") THEN "lives"
    ELSE "player"

\* re.match(...) returned None: .group raises AttributeError
RaiseNoMatch(kind) ==
    /\ pc = "idle"
    /\ calls < MaxCalls
    /\ calls' = calls + 1
    /\ call' = kind
    /\ error' = [kind |-> "AttributeError",
                 msg |-> "'NoneType' object has no attribute 'group'",
                 expected |-> FALSE, cause |-> 200]
    /\ UNCHANGED <<fields, env, pc, locals, requests, signals, result,
                   listVars, akVars>>

\* _extract_from_url(url) up to the call of _extract_base_info
Dispatch ==
    LET kind == ExtractFromUrl(url)
        m == IF kind = "player" THEN MatchPlayerUrl(url) ELSE MatchListUrl(url, kind)
    IN  IF ~m.matched THEN RaiseNoMatch(kind)
        ELSE IF kind = "videos" THEN StartVideoListPage(m.domain, m.channel, NoQs)
        ELSE IF kind = "lives" THEN StartLiveListPage(m.domain, m.channel, NoQs)
        ELSE StartPlayerPage(m.domain, m.channel, m.code)

----------------------------------------------------------------------------
(* AkibaPassTVIE *)

WatchUnauthorized(page) == page = "<div id=watch-unauthorized>"
HasEmbedUrl(page) == page = "embed_url: https://embed.vhx.tv/videos/1?"

\* the test made after the first download with the page always taken as
\* unauthorized
NeedsLogin_Always(page) == TRUE

\* `if not webpage or '<div id="watch-unauthorized"' in webpage`
NeedsLogin(page) == ~Truthy(page) \/ WatchUnauthorized(page)

\* watch pages the site may answer with
WatchPages == {"", "<div id=watch-unauthorized>",
               "embed_url: https://embed.vhx.tv/videos/1?"}

\* values of the user_has_subscription marker in the login response; None
\* is a response without the marker
Markers == {None, "true", "True", "TRUE", "false", "FALSE", "maybe"}

\* str.lower() on the marker values
Lower(v) ==
    CASE v \in {"true", "True", "TRUE"} -> "true"
      [] v \in {"false", "FALSE"} -> "false"
      [] OTHER -> v

\* _login after the POST returned a page: the scan for the marker and the
\* three outcomes, with the comparison made without lower()
LoginOutcome_CaseSensitive(marker) ==
    LET user_has_subscription == IF marker = None THEN "none" ELSE marker IN
    IF user_has_subscription = "true" THEN None
    ELSE IF user_has_subscription = "false" THEN "Account is not subscribed"
    ELSE "Incorrect username/password"

\* _login after the POST returned a page: the scan for the marker
\* (default 'none') and the three outcomes
LoginOutcome(marker) ==
    LET user_has_subscription == IF marker = None THEN "none" ELSE marker IN
    IF Lower(user_has_subscription) = "true" THEN None
    ELSE IF Lower(user_has_subscription) = "false" THEN "Account is not subscribed"
    ELSE "Incorrect username/password"

\* _login without credentials, returning None instead of True
LoginWithoutCredentials_None == None

\* _login without credentials: `if not username: return True`
LoginWithoutCredentials == "True"

\* what _real_extract does with the watch page once no login error stands
\* in the way: find the embed URL and return the info dict
ExtractFromWatchPage(page) ==
    IF HasEmbedUrl(page) THEN
        /\ result' = [NoResult EXCEPT !.returned = TRUE, !.id = "1"]
        /\ UNCHANGED error
    ELSE
        /\ error' = ExtractorError("Unable to extract embed url", FALSE)
        /\ UNCHANGED result

\* _real_extract up to the first download: the cookie test
StartAkiba(user, cookie) ==
    /\ pc = "idle"
    /\ call \in {"none", "akiba"}
    /\ calls < MaxCalls
    /\ calls' = calls + 1
    /\ call' = "akiba"
    /\ username' = user
    /\ session_cookie' = cookie
    /\ webpage' = None
    /\ response' = None
    /\ login_err' = None
    /\ requests' = << >>
    /\ signals' = << >>
    /\ error' = NoError
    /\ result' = NoResult
    /\ pc' = IF cookie THEN "watch_page" ELSE "login"
    /\ UNCHANGED <<fields, env, locals, listVars>>

\* _real_extract: the download of the watch page when a session cookie exists
FetchWatchPage(o, page) ==
    /\ pc = "watch_page"
    /\ requests' = Append(requests,
           [Request("watch_page", "akibapasstv", o, None)
               EXCEPT !.answer = IF Succeeded(o) THEN page ELSE None])
    /\ IF ~Succeeded(o) THEN
           /\ Raise(DownloadFailure("Unable to download webpage", o))
           /\ UNCHANGED <<webpage, result>>
       ELSE IF NeedsLogin(page) THEN
           /\ webpage' = page
           /\ pc' = "login"
           /\ UNCHANGED <<error, result>>
       ELSE
           /\ webpage' = page
           /\ ExtractFromWatchPage(page)
           /\ pc' = "idle"
    /\ UNCHANGED <<fields, env, calls, call, locals,
                   signals, listVars, username, session_cookie, response,
                   login_err>>

\* _login: _get_login_info and the test for credentials
Login ==
    /\ pc = "login"
    /\ IF ~Truthy(username) THEN
           /\ login_err' = LoginWithoutCredentials
           /\ pc' = "watch_page_again"
       ELSE
           /\ pc' = "login_page"
           /\ UNCHANGED login_err
    /\ UNCHANGED <<fields, env, calls, call, locals,
                   requests, signals, error, result, listVars, username,
                   session_cookie, webpage, response>>

\* _get_authenticity_token: the GET of the login page and the token search
GetAuthenticityToken(o, token) ==
    /\ pc = "login_page"
    /\ requests' = Append(requests,
           [Request("login_page", "akibapasstv", o, None)
               EXCEPT !.answer = IF Succeeded(o) THEN token ELSE None])
    /\ IF ~Succeeded(o) THEN
           Raise(DownloadFailure("Unable to download webpage", o))
       ELSE IF ~Truthy(token) THEN
           Raise(ExtractorError("Unable to extract authenticity_token", FALSE))
       ELSE
           /\ pc' = "login_post"
           /\ UNCHANGED error
    /\ UNCHANGED <<fields, env, calls, call, locals,
                   signals, result, listVars, akVars>>

\* _login: the POST of the credentials (fatal=False) and the scan of the
\* response.  A failed POST yields False, which re.search rejects.
LoginPost(o, marker) ==
    /\ pc = "login_post"
    /\ requests' = Append(requests,
           Request("login_post", "akibapasstv", o, "email, password, authenticity_token"))
    /\ response' = IF ~Succeeded(o) THEN "False"
                   ELSE IF marker = None THEN "" ELSE marker
    /\ IF ~Succeeded(o) THEN
           /\ Raise([kind |-> "TypeError",
                     msg |-> "expected string or bytes-like object",
                     expected |-> FALSE, cause |-> 200])
           /\ UNCHANGED login_err
       ELSE
           /\ login_err' = LoginOutcome(marker)
           /\ pc' = "watch_page_again"
           /\ UNCHANGED error
    /\ UNCHANGED <<fields, env, calls, call, locals,
                   signals, result, listVars, username, session_cookie, webpage>>

\* _real_extract: the download of the watch page after _login, the test of
\* login_err, and the rest of the extraction
FetchWatchPageAgain(o, page) ==
    /\ pc = "watch_page_again"
    /\ requests' = Append(requests,
           [Request("watch_page", "akibapasstv", o, None)
               EXCEPT !.answer = IF Succeeded(o) THEN page ELSE None])
    /\ pc' = "idle"
    /\ IF ~Succeeded(o) THEN
           /\ error' = DownloadFailure("Unable to download webpage", o)
           /\ UNCHANGED <<webpage, result, signals>>
       ELSE IF Truthy(login_err) /\ WatchUnauthorized(page) THEN
           /\ webpage' = page
           /\ UNCHANGED result
           /\ IF login_err = "True" THEN
                  /\ signals' = Append(signals,
                         Signal("login_required", "akiba",
                                "This video is only available for registered users",
                                LoginRequiredRaises(FALSE, ignore_no_formats_error)))
                  /\ error' = ExtractorError(
                         "This video is only available for registered users", TRUE)
              ELSE
                  /\ error' = ExtractorError(login_err, TRUE)
                  /\ UNCHANGED signals
       ELSE
           /\ webpage' = page
           /\ ExtractFromWatchPage(page)
           /\ UNCHANGED signals
    /\ UNCHANGED <<fields, env, calls, call, locals,
                   listVars, username, session_cookie, response, login_err>>

----------------------------------------------------------------------------
(* AkibaPassTVSeasonIE *)

\* most collection items on a season page
MaxSeasonItems == 3

\* the link of a js-collection-item element, None for an item without a
\* browse-item-link anchor
ItemLinks == {None, "https://akibapasstv.vhx.tv/videos/ep1",
              "https://akibapasstv.vhx.tv/videos/ep2"}

\* the option selected in the season dropdown, "" when the page has none
CurrentSeasons == {"", "Season 1"}

\* season pages: the collection items in page order and the selected season
SeasonPages ==
    UNION { [items : [1..n -> ItemLinks], current_season : CurrentSeasons] :
            n \in 0..MaxSeasonItems }

SeasonId == "shriek-week"

\* season_id.replace('-', ' ').title()
SeasonTitle(id) == IF id = "shriek-week" THEN "Shriek Week" ELSE id

\* current_season.lower().replace(' ', '-')
SeasonSlug(season) == IF season = "Season 1" THEN "season-1" ELSE season

\* join_nonempty(a, b, delim)
join_nonempty(a, b, delim) ==
    IF a = "" THEN b ELSE IF b = "" THEN a ELSE a \o delim \o b

\* the names akibapasstv.py binds at module level that can serve as ie
NamesBound == {"InfoExtractor", "VHXEmbedIE", "AkibaPassTVIE", "AkibaPassTVSeasonIE"}

\* the entries comprehension of AkibaPassTVSeasonIE._real_extract: for the
\* first item the link is searched, then DropoutIE.ie_key() is evaluated;
\* DropoutIE is no name of the module
SeasonEntries(items) ==
    IF items = << >> THEN [error |-> NoError, entries |-> << >>]
    ELSE IF items[1] = None THEN
        [error |-> ExtractorError("Unable to extract item_url", FALSE),
         entries |-> << >>]
    ELSE IF "DropoutIE" \notin NamesBound THEN
        [error |-> [kind |-> "NameError", msg |-> "name 'DropoutIE' is not defined",
                    expected |-> FALSE, cause |-> 200],
         entries |-> << >>]
    ELSE IF \E i \in DOMAIN items : items[i] = None THEN
        [error |-> ExtractorError("Unable to extract item_url", FALSE),
         entries |-> << >>]
    ELSE
        [error |-> NoError,
         entries |-> [i \in DOMAIN items |-> [url |-> items[i], ie_key |-> "Dropout"]]]

\* AkibaPassTVSeasonIE._real_extract
SeasonExtract(o) ==
    /\ pc = "idle"
    /\ call \in {"none", "season"}
    /\ calls < MaxCalls
    /\ calls' = calls + 1
    /\ call' = "season"
    /\ requests' = << Request("season_page", "akibapasstv", o, None) >>
    /\ signals' = << >>
    /\ pc' = "idle"
    /\ IF ~Succeeded(o) THEN
           /\ error' = DownloadFailure("Unable to download webpage", o)
           /\ result' = NoResult
       ELSE
           LET r == SeasonEntries(season_page.items) IN
           /\ error' = r.error
           /\ result' =
                  IF r.error # NoError THEN NoResult
                  ELSE [NoResult EXCEPT
                           !.returned = TRUE,
                           !.id = join_nonempty(SeasonId,
                                      SeasonSlug(season_page.current_season), "-"),
                           !.title = join_nonempty(SeasonTitle(SeasonId),
                                         season_page.current_season, " - "),
                           !.entries = r.entries]
    /\ UNCHANGED <<fields, env, locals, listVars, akVars>>

----------------------------------------------------------------------------
(* The extractor instance after construction, and its steps *)

FieldsUnset ==
    /\ _DOMAIN = None
    /\ _API_BASE_URL = None
    /\ _FANCLUB_GROUP_ID = None
    /\ _FANCLUB_SITE_ID_AUTH = None
    /\ _FANCLUB_SITE_ID_INFO = None

NoCallYet ==
    /\ url = None
    /\ season_page = None
    /\ calls = 0
    /\ call = "none"
    /\ channel_id = None
    /\ live_status = None
    /\ m3u8_url = None
    /\ formats = << >>
    /\ channel_info = NoChannelInfo
    /\ url_qs = NoQs
    /\ requests = << >>
    /\ signals = << >>
    /\ error = NoError
    /\ result = NoResult
    /\ playlist = NoPlaylist
    /\ cache = << >>
    /\ entries = << >>
    /\ list_state = "none"
    /\ page_requests = << >>
    /\ server_items = 0
    /\ username = None
    /\ session_cookie = FALSE
    /\ webpage = None
    /\ response = None
    /\ login_err = None

Init ==
    /\ FieldsUnset
    /\ NoCallYet
    /\ ignore_no_formats_error \in BOOLEAN
    /\ pc = "idle"
    /\ content_code = None
    /\ data_json = NoData

Next ==
    \/ \E dom \in Domains, ch \in Channels, code \in ContentCodes :
           StartPlayerPage(dom, ch, code)
    \/ /\ list_state = "none"
       /\ \E dom \in Domains, ch \in Channels, qs \in UrlQueries :
              StartVideoListPage(dom, ch, qs)
    \/ /\ list_state = "none"
       /\ \E dom \in Domains, ch \in Channels, qs \in LiveUrlQueries :
              StartLiveListPage(dom, ch, qs)
    \/ \E o \in PlainAnswers : FetchSiteSettings(o)
    \/ \E o \in PlainAnswers, id \in LookupIds : FindFanclubSiteId(o, id)
    \/ \E o \in PlainAnswers, dj \in VideoPages : FetchVideoPage(o, dj)
    \/ \E o \in AuthedAnswers, sid \in SessionIds : GetSessionId(o, sid)
    \/ \E o \in PlainAnswers : ExtractM3u8Formats(o)
    \/ \E o \in AuthedAnswers, res \in Resources : GetContentAccess(o, res)
    \/ \E o \in PlainAnswers : ChannelBaseInfo(o, "channel name")
    \/ \E o \in PlainAnswers : ChannelUserInfo(o, "0")
    \/ ReturnPlayerPage
    \/ \E m \in ListSizes : ReturnVideoList(m)
    \/ \E m \in ListSizes : ReturnLiveList(m)
    \/ \E o \in PlainAnswers : NextEntry(o)
    \/ \E user \in Usernames, cookie \in BOOLEAN : StartAkiba(user, cookie)
    \/ \E o \in PlainAnswers, page \in WatchPages : FetchWatchPage(o, page)
    \/ Login
    \/ \E o \in PlainAnswers, token \in {None, "token"} : GetAuthenticityToken(o, token)
    \/ \E o \in PlainAnswers, marker \in Markers : LoginPost(o, marker)
    \/ \E o \in PlainAnswers, page \in WatchPages : FetchWatchPageAgain(o, page)

Spec == Init /\ [][Next]_vars

----------------------------------------------------------------------------
(* One extractor instance shared by list calls and by the consumption of   *)
(* the list the first of them returned                                     *)

\* sizes of the lists of the shared instance: two pages
SharedListSizes == {13}

NextShared ==
    \/ \E dom \in ListDomains, ch \in Channels : StartVideoListPage(dom, ch, NoQs)
    \/ \E dom \in ListDomains, ch \in Channels : StartLiveListPage(dom, ch, NoQs)
    \/ \E o \in PlainAnswers : FetchSiteSettings(o)
    \/ \E o \in PlainAnswers, id \in LookupIds : FindFanclubSiteId(o, id)
    \/ \E o \in PlainAnswers : ChannelBaseInfo(o, "channel name")
    \/ \E o \in PlainAnswers : ChannelUserInfo(o, "0")
    \/ \E m \in SharedListSizes : ReturnVideoList(m)
    \/ \E m \in SharedListSizes : ReturnLiveList(m)
    \/ \E o \in PlainAnswers : NextEntry(o)

SpecShared == Init /\ [][NextShared]_vars

----------------------------------------------------------------------------
(* The post extractor of a returned player-page call *)

\* the state a player-page call that returned its record leaves behind
InitComments ==
    /\ url = None
    /\ season_page = None
    /\ ignore_no_formats_error \in BOOLEAN
    /\ calls = 1
    /\ call = "player"
    /\ pc = "comments"
    /\ _DOMAIN \in Domains
    /\ _API_BASE_URL = SiteSettings(_DOMAIN).api_base_url
    /\ _FANCLUB_GROUP_ID = SiteSettings(_DOMAIN).fanclub_group_id
    /\ _FANCLUB_SITE_ID_AUTH = SiteSettings(_DOMAIN).fanclub_site_id
    /\ _FANCLUB_SITE_ID_INFO \in {"1", "7"}
    /\ channel_id \in Channels
    /\ content_code \in ContentCodes
    /\ data_json \in {[NoData EXCEPT !.type = "vod", !.title = "title",
                                     !.comment_group_id = g] : g \in {None, "group1"}}
    /\ live_status = "not_live"
    /\ m3u8_url = None
    /\ formats = << >>
    /\ channel_info = NoChannelInfo
    /\ url_qs = NoQs
    /\ requests = << >>
    /\ signals = << >>
    /\ error = NoError
    /\ result = [NoResult EXCEPT !.returned = TRUE, !.id = content_code,
                                  !.title = "title", !.live_status = "not_live"]
    /\ playlist = NoPlaylist
    /\ cache = << >>
    /\ entries = << >>
    /\ list_state = "none"
    /\ page_requests = << >>
    /\ server_items = 0
    /\ username = None
    /\ session_cookie = FALSE
    /\ webpage = None
    /\ response = None
    /\ login_err = None

NextComments ==
    \/ GetComments
    \/ \E o \in PlainAnswers : GetCommentToken(o)
    \/ \E o \in AuthedAnswers, body \in CommentBodies : FetchCommentHistory(o, body)

SpecComments == InitComments /\ [][NextComments]_vars

----------------------------------------------------------------------------
(* AkibaPassTVSeasonIE on every season page *)

InitSeason ==
    /\ FieldsUnset
    /\ calls = 0
    /\ call = "none"
    /\ url = None
    /\ season_page \in SeasonPages
    /\ ignore_no_formats_error = FALSE
    /\ pc = "idle"
    /\ channel_id = None
    /\ content_code = None
    /\ data_json = NoData
    /\ live_status = None
    /\ m3u8_url = None
    /\ formats = << >>
    /\ channel_info = NoChannelInfo
    /\ url_qs = NoQs
    /\ requests = << >>
    /\ signals = << >>
    /\ error = NoError
    /\ result = NoResult
    /\ playlist = NoPlaylist
    /\ cache = << >>
    /\ entries = << >>
    /\ list_state = "none"
    /\ page_requests = << >>
    /\ server_items = 0
    /\ username = None
    /\ session_cookie = FALSE
    /\ webpage = None
    /\ response = None
    /\ login_err = None

NextSeason == \E o \in PlainAnswers : SeasonExtract(o)

SpecSeason == InitSeason /\ [][NextSeason]_vars

----------------------------------------------------------------------------
(* _extract_from_url on every URL *)

\* channel slugs of the dispatched URLs, None for a URL without slug
DispatchSlugs == {None, "kaorin", "videos", "videos-ch", "lives", "lives.fc"}

\* tails of the URLs of the site: the player pages and the two lists
SiteTails ==
    {<< k, c >> : k \in {"live", "video", "audio"}, c \in ContentCodes}
        \cup {<< "videos" >>, << "lives" >>}

\* the URLs of the site, and URLs with one more segment in front of the slug
DispatchUrls ==
    [domain : ListDomains, prefix : {<< >>}, channel : DispatchSlugs, tail : SiteTails]
        \cup [domain : ListDomains, prefix : {<< "fc" >>}, channel : {"kaorin"},
              tail : SiteTails]

SiteUrl == url.prefix = << >>

InitDispatch ==
    /\ FieldsUnset
    /\ calls = 0
    /\ call = "none"
    /\ url \in DispatchUrls
    /\ season_page = None
    /\ ignore_no_formats_error = FALSE
    /\ pc = "idle"
    /\ channel_id = None
    /\ content_code = None
    /\ data_json = NoData
    /\ live_status = None
    /\ m3u8_url = None
    /\ formats = << >>
    /\ channel_info = NoChannelInfo
    /\ url_qs = NoQs
    /\ requests = << >>
    /\ signals = << >>
    /\ error = NoError
    /\ result = NoResult
    /\ playlist = NoPlaylist
    /\ cache = << >>
    /\ entries = << >>
    /\ list_state = "none"
    /\ page_requests = << >>
    /\ server_items = 0
    /\ username = None
    /\ session_cookie = FALSE
    /\ webpage = None
    /\ response = None
    /\ login_err = None

NextDispatch == calls = 0 /\ Dispatch

SpecDispatch == InitDispatch /\ [][NextDispatch]_vars

----------------------------------------------------------------------------
(* _get_live_status on its own: every input tuple, classified once *)

ClassifierTypes == {"vod", "live", "movie", None}
ClassifierFlags == {None, "False", "True"}

ClassifierInputs ==
    { [NoData EXCEPT !.type = t, !.live_started_at = s, !.live_finished_at = f,
                     !.allow_dvr_flg = d, !.convert_to_vod_flg = c] :
        t \in ClassifierTypes, s \in Timestamps, f \in Timestamps,
        d \in ClassifierFlags, c \in ClassifierFlags }

InitClassify ==
    /\ FieldsUnset
    /\ NoCallYet
    /\ ignore_no_formats_error = FALSE
    /\ pc = "classify"
    /\ content_code \in ContentCodes
    /\ data_json \in ClassifierInputs

\* one call of _get_live_status(data_json, content_code)
Classify ==
    /\ pc = "classify"
    /\ LET ls == GetLiveStatus(data_json) IN
       /\ live_status' = ls.status
       /\ error' = ls.error
    /\ pc' = "classified"
    /\ UNCHANGED <<fields, env, calls, call, channel_id,
                   content_code, data_json, formats, channel_info, url_qs, m3u8_url,
                   requests, signals, result, listVars, akVars>>

NextClassify == Classify

SpecClassify == InitClassify /\ [][NextClassify]_vars

----------------------------------------------------------------------------
(* Claims about the live-status classifier *)

IsSet(v) == v \in Timestamps \ {None}
FlagTrue(v) == v = "True"

LiveEndedError ==
    ExtractorError("Live was ended, there is no video for download", TRUE)

EndedLive ==
    /\ pc = "classified"
    /\ data_json.type = "live"
    /\ IsSet(data_json.live_started_at)
    /\ IsSet(data_json.live_finished_at)

\* C1 (as stated): an ended live item fails with the expected live-ended
\* error exactly when both flags are false, and is was_live when at least one
\* flag is true.
C1_FailsOnlyWhenBothFlagsFalse ==
    EndedLive =>
        IF ~FlagTrue(data_json.allow_dvr_flg) /\ ~FlagTrue(data_json.convert_to_vod_flg)
        THEN error = LiveEndedError
        ELSE error = NoError /\ live_status = "was_live"

\* C1 (amended): an ended live item is was_live exactly when both flags are
\* true, and fails with the expected live-ended error as soon as one of the
\* two flags is false or absent.
C1_FailsUnlessBothFlagsTrue ==
    EndedLive =>
        IF FlagTrue(data_json.allow_dvr_flg) /\ FlagTrue(data_json.convert_to_vod_flg)
        THEN error = NoError /\ live_status = "was_live"
        ELSE error = LiveEndedError /\ live_status = None

\* C1 witness: an ended live item with DVR allowed but no conversion to VOD
\* has been classified, and the classifier failed.
C1_Witness ==
    /\ EndedLive
    /\ FlagTrue(data_json.allow_dvr_flg)
    /\ data_json.convert_to_vod_flg = "False"
    /\ error = LiveEndedError

\* C2: the classifier's table outside the ended-live row: vod is was_live or
\* not_live by the finish timestamp alone and never fails; live without
\* start is is_upcoming; live with start and without finish is is_live; any
\* other type gives no status and an unrecognized-type error that is not
\* marked expected.
C2_ClassifierTable ==
    pc = "classified" =>
        IF data_json.type = "vod" THEN
            /\ error = NoError
            /\ live_status = IF IsSet(data_json.live_finished_at)
                             THEN "was_live" ELSE "not_live"
        ELSE IF data_json.type = "live" THEN
            /\ ~IsSet(data_json.live_started_at) =>
                   error = NoError /\ live_status = "is_upcoming"
            /\ IsSet(data_json.live_started_at) /\ ~IsSet(data_json.live_finished_at) =>
                   error = NoError /\ live_status = "is_live"
        ELSE
            /\ live_status = None
            /\ error.kind = "ExtractorError"
            /\ ~error.expected
            /\ error.msg \in {"Unknown type: 'movie'", "Unknown type: None"}

\* C2 witness: a vod without start timestamp, with a finish timestamp and
\* both flags false has been classified was_live.
C2_Witness ==
    /\ pc = "classified"
    /\ data_json.type = "vod"
    /\ ~IsSet(data_json.live_started_at)
    /\ IsSet(data_json.live_finished_at)
    /\ data_json.allow_dvr_flg = "False"
    /\ data_json.convert_to_vod_flg = "False"
    /\ live_status = "was_live"
    /\ error = NoError

----------------------------------------------------------------------------
(* Claims about the authenticated API caller *)

AuthedApis == {"session_ids", "content_access"}

AuthedErrnote(api) ==
    IF api = "session_ids" THEN "Unable to get session id"
    ELSE "Unable to get content resource"

RecognisedStatuses == {401, 403, 404, 408}

SignalsFrom(src) == {i \in DOMAIN signals : signals[i].src = src}

\* the authenticated requests of the running or last call
AuthedRequests == {i \in DOMAIN requests : requests[i].api \in AuthedApis}

\* C3: an authenticated call answered 401, 403, 404 or 408 emits exactly one
\* login-required signal, with the message documented for the status
\* followed by the status code; answered with another HTTP status or failing
\* without HTTP status, it ends the extraction with the original download
\* error and emits no login-required signal; answered with success it emits
\* none either.
C3_StatusMapping ==
    \A i \in AuthedRequests :
        LET r == requests[i] IN
        IF r.outcome \in RecognisedStatuses THEN
            /\ Cardinality(SignalsFrom(r.api)) = 1
            /\ \A k \in SignalsFrom(r.api) :
                   /\ signals[k].kind = "login_required"
                   /\ signals[k].msg =
                          CASE r.outcome = 401 -> "Invalid token (401)"
                            [] r.outcome = 403 -> "Login required (403)"
                            [] r.outcome = 404 -> "Members-only content (404)"
                            [] r.outcome = 408 -> "Outdated token (408)"
        ELSE IF r.outcome = 200 THEN
            SignalsFrom(r.api) = {}
        ELSE
            /\ SignalsFrom(r.api) = {}
            /\ i = Len(requests)
            /\ pc = "idle"
            /\ error = DownloadFailure(AuthedErrnote(r.api), r.outcome)
            /\ ~result.returned

\* C3 witness: the content access call was answered 404 and the
\* members-only signal was emitted.
C3_Witness ==
    \E i \in AuthedRequests :
        /\ requests[i].api = "content_access"
        /\ requests[i].outcome = 404
        /\ \E k \in SignalsFrom("content_access") :
               signals[k].msg = "Members-only content (404)"

----------------------------------------------------------------------------
(* Claims about player-page extraction and denied authenticated calls *)

\* a player-page call has ended
PlayerDone == call = "player" /\ pc = "idle"

Denied(i) ==
    /\ requests[i].api \in AuthedApis
    /\ requests[i].outcome \in RecognisedStatuses

AudioFormatIds == {"audio_free", "audio_paid", None}

\* the record the call returns holds the metadata gathered before the
\* formats were resolved
MetadataReturned ==
    /\ result.returned
    /\ result.id = content_code
    /\ result.title = data_json.title
    /\ result.live_status = live_status
    /\ result.channel_id = IF channel_id = None THEN _DOMAIN
                           ELSE _DOMAIN \o "/" \o channel_id

\* the formats of the returned record hold nothing of the denied stream
NoFormatsOf(api) ==
    IF api = "session_ids"
    THEN \A k \in DOMAIN formats : formats[k] # "hls"
    ELSE \A k \in DOMAIN formats : formats[k] \notin AudioFormatIds

----------------------------------------------------------------------------
(* Claims about failures of requests *)

Failed(r) == r.outcome # 200

\* requests whose failure the code absorbs with fatal=False
NonFatalApis == {"page_base_info", "user_info", "login_post"}

\* a failure that is not a denial of an authenticated call
PlainFailure(r) ==
    /\ Failed(r)
    /\ ~(r.api \in AuthedApis /\ r.outcome \in RecognisedStatuses)

NoReissue(log) ==
    \A i, j \in DOMAIN log :
        (i < j /\ Failed(log[i])) => log[j].api # log[i].api

\* the failure of request i of the call's log reached the caller at once
Propagated(i) ==
    /\ i = Len(requests)
    /\ pc = "idle"
    /\ error.kind = "download"
    /\ error.cause = requests[i].outcome
    /\ ~result.returned

\* the failure of page request i of the list reached the consumer at once
PagePropagated(i) ==
    /\ i = Len(page_requests)
    /\ list_state = "failed"
    /\ error.kind = "download"
    /\ error.cause = page_requests[i].outcome

\* C5 (as stated): no request is re-issued after it failed, and every
\* failure that is not a denial of an authenticated call reaches the caller
\* at once.
C5_EveryFailurePropagates ==
    /\ NoReissue(requests)
    /\ NoReissue(page_requests)
    /\ \A i \in DOMAIN requests : PlainFailure(requests[i]) => Propagated(i)
    /\ \A i \in DOMAIN page_requests : Failed(page_requests[i]) => PagePropagated(i)

\* C5 (amended): no request is re-issued after it failed; every failure that
\* is not a denial of an authenticated call reaches the caller at once,
\* except on the three requests made with fatal=False: a failed channel base
\* info or channel user info request leaves the channel name or the age
\* limit unset and the call goes on, and a failed login POST ends the
\* extraction with the TypeError of the marker search, not with the failure
\* of the request.
C5_FatalFailuresPropagate ==
    /\ NoReissue(requests)
    /\ NoReissue(page_requests)
    /\ \A i \in DOMAIN requests :
           LET r == requests[i] IN
           PlainFailure(r) =>
               CASE r.api = "page_base_info" ->
                        /\ channel_info.channel = None
                        /\ pc = "user_info" \/ i < Len(requests)
                 [] r.api = "user_info" ->
                        /\ channel_info.age_limit = None
                        /\ pc = "return" \/ result.returned
                 [] r.api = "login_post" ->
                        /\ i = Len(requests)
                        /\ response = "False"
                        /\ error.kind = "TypeError"
                 [] OTHER -> Propagated(i)
    /\ \A i \in DOMAIN page_requests : Failed(page_requests[i]) => PagePropagated(i)

\* C5 witness: the channel base info request failed and the player-page
\* call returned its record all the same.
C5_Witness ==
    /\ PlayerDone
    /\ \E i \in DOMAIN requests :
           requests[i].api = "page_base_info" /\ Failed(requests[i])
    /\ result.returned
    /\ error = NoError

\* a failed list page request reached the consumer of the list
C5_ListWitness ==
    /\ list_state = "failed"
    /\ Len(page_requests) = 2
    /\ Failed(page_requests[2])

----------------------------------------------------------------------------
(* Claims about the audio format *)

\* the content access call returned an audio resource
AudioResolved == call = "player" /\ Truthy(m3u8_url)

\* C10: when the audio resource matches a transcoded-list entry classified
\* audio_free, one login-required signal is emitted, ending with 'There may
\* be some silent parts in this audio' when video_free_periods is non-empty
\* and with 'This audio may be completely blank' otherwise; for any other
\* classification no such signal is emitted and the audio format is yielded.
C10_AudioFreeSignal ==
    AudioResolved =>
        IF m3u8_url = "https://cdn/free.m3u8" THEN
            /\ Cardinality(SignalsFrom("audio_free")) = 1
            /\ \A k \in SignalsFrom("audio_free") :
                   /\ signals[k].kind = "login_required"
                   /\ signals[k].msg =
                          IF data_json.video_free_periods = "[period]"
                          THEN "You have no right to access the paid content. There may be some silent parts in this audio"
                          ELSE "You have no right to access the paid content. This audio may be completely blank"
        ELSE
            /\ SignalsFrom("audio_free") = {}
            /\ formats # << >>
            /\ formats[Len(formats)] =
                   IF m3u8_url = "https://cdn/paid.m3u8" THEN "audio_paid" ELSE None

\* C10 witness: a free audio of an item with an empty video_free_periods
\* list was resolved and the 'completely blank' signal was emitted.
C10_Witness ==
    /\ AudioResolved
    /\ m3u8_url = "https://cdn/free.m3u8"
    /\ data_json.video_free_periods = "[]"
    /\ \E k \in SignalsFrom("audio_free") :
           signals[k].msg = "You have no right to access the paid content. This audio may be completely blank"

----------------------------------------------------------------------------
(* Claims about the paged channel lists *)

\* the list has handed out N entries, none of its requests failed, and the
\* listing API holds more than N items
ConsumedPrefix ==
    /\ list_state \in {"open", "exhausted"}
    /\ Len(entries) < server_items

\* C6: consuming the first N items of a list holding M > N items issues
\* exactly ceil(N / 12) page requests, for the pages 1 .. ceil(N / 12) in
\* increasing order: no page is requested before an item on it is asked for,
\* and none beyond the page holding item N.
C6_LazyPageRequests ==
    ConsumedPrefix =>
        /\ Len(page_requests) = (Len(entries) + 11) \div 12
        /\ \A i \in DOMAIN page_requests :
               /\ page_requests[i].query["page"] = i
               /\ page_requests[i].outcome = 200

\* C6 witness: 13 entries of a list of more than 13 items were consumed, with
\* two page requests.
C6_Witness ==
    /\ ConsumedPrefix
    /\ Len(entries) = 13
    /\ Len(page_requests) = 2

\* C7: the request for the k-th page (k from 0) carries page = k + 1 and
\* per_page = 12 and the list's filters and nothing else: for a video list
\* the URL's tag (left out when the URL has none), sort (default
\* '-display_date') and vodType sent as vod_type (default '0'); for a live
\* list live_type = 4 alone, whatever the URL's query string.
C7_PageRequestQuery ==
    \A i \in DOMAIN page_requests :
        LET q == page_requests[i].query
            qs == playlist.url.qs
        IN  /\ q["page"] = i
            /\ q["per_page"] = 12
            /\ IF playlist.api = "video_pages" THEN
                   /\ DOMAIN q = {"page", "per_page", "sort", "vod_type"}
                                 \cup (IF qs.tag = None THEN {} ELSE {"tag"})
                   /\ qs.tag # None => q["tag"] = qs.tag
                   /\ q["sort"] = IF qs.sort = None THEN "-display_date" ELSE qs.sort
                   /\ q["vod_type"] = IF qs.vodType = None THEN "0" ELSE qs.vodType
               ELSE
                   /\ playlist.api = "live_pages"
                   /\ DOMAIN q = {"page", "per_page", "live_type"}
                   /\ q["live_type"] = 4

\* C7 witness: the third page of a video list whose URL carries a tag and no
\* sort has been requested.
C7_Witness ==
    /\ Len(page_requests) = 3
    /\ playlist.api = "video_pages"
    /\ playlist.url.qs.tag = "music"
    /\ playlist.url.qs.sort = None
    /\ page_requests[3].outcome = 200

\* C7 witness for a live list whose URL carries a query string.
C7_LiveWitness ==
    /\ Len(page_requests) = 2
    /\ playlist.api = "live_pages"
    /\ playlist.url.qs.sort = "display_date"

----------------------------------------------------------------------------
(* Claims about the AkibaPassTV login flow *)

AkibaDone == call = "akiba" /\ pc = "idle"

Issued(api) == \E i \in DOMAIN requests : requests[i].api = api

WatchPageFetches == Cardinality({i \in DOMAIN requests : requests[i].api = "watch_page"})

\* _login was called and the watch page was downloaded after it
WatchPageFetchedAfterLogin ==
    /\ AkibaDone
    /\ requests # << >>
    /\ requests[Len(requests)].api = "watch_page"
    /\ requests[Len(requests)].outcome = 200
    /\ ~session_cookie \/ WatchPageFetches = 2

LoginRequiredSignalled ==
    \E k \in DOMAIN signals : signals[k].kind = "login_required"

LoginRequiredError ==
    ExtractorError("This video is only available for registered users", TRUE)

\* C8 (as stated): without credentials an extraction that runs the login flow
\* issues neither the login-page GET nor the credentials POST and ends with
\* a login-required signal.
C8_NoCredentialsEndsLoginRequired ==
    (WatchPageFetchedAfterLogin /\ username = None) =>
        /\ ~Issued("login_page")
        /\ ~Issued("login_post")
        /\ LoginRequiredSignalled
        /\ error = LoginRequiredError

\* C8 (amended): without credentials the login flow issues neither the
\* login-page GET nor the credentials POST, and the extraction ends with a
\* login-required signal exactly when the watch page downloaded after the
\* login step is marked unauthorized; otherwise no login-required signal is
\* emitted and the extraction goes on with that page.
C8_NoCredentialsLoginRequiredIfUnauthorized ==
    (call = "akiba" /\ username = None) =>
        /\ ~Issued("login_page")
        /\ ~Issued("login_post")
        /\ WatchPageFetchedAfterLogin =>
               IF webpage = "<div id=watch-unauthorized>" THEN
                   /\ LoginRequiredSignalled
                   /\ error = LoginRequiredError
                   /\ ~result.returned
               ELSE
                   /\ ~LoginRequiredSignalled
                   /\ error # LoginRequiredError

\* C8 witness: without credentials and without cookie the watch page came
\* back unauthorized and the extraction ended login-required, with the watch
\* page request as its only request.
C8_Witness ==
    /\ WatchPageFetchedAfterLogin
    /\ username = None
    /\ ~session_cookie
    /\ webpage = "<div id=watch-unauthorized>"
    /\ Len(requests) = 1
    /\ error = LoginRequiredError

LoginErrors == {"Account is not subscribed", "Incorrect username/password"}

\* the login POST returned a page
LoginPageReturned == call = "akiba" /\ response \notin {None, "False"}

\* C9 (as stated): once the login POST is made, the marker of the response
\* fixes the outcome of the extraction: 'true' in any case gives no login
\* error, 'false' the expected error 'Account is not subscribed', anything
\* else, a missing marker or a missing page the expected error 'Incorrect
\* username/password'.
C9_MarkerFixesOutcome ==
    (AkibaDone /\ Issued("login_post")) =>
        IF response \in {"true", "True", "TRUE"} THEN
            error.msg \notin LoginErrors
        ELSE IF response \in {"false", "FALSE"} THEN
            error = ExtractorError("Account is not subscribed", TRUE)
        ELSE
            error = ExtractorError("Incorrect username/password", TRUE)

\* C9, the part that holds: once the login POST has returned a page, the
\* marker fixes what _login returns: nothing for 'true' in any letter case,
\* 'Account is not subscribed' for 'false' in any letter case, 'Incorrect
\* username/password' for anything else or no marker.  The extraction fails
\* with that message as an expected error exactly when _login returned one
\* and the watch page downloaded afterwards is marked unauthorized;
\* otherwise it ends with no login error.
C9_MarkerFixesLoginError ==
    LoginPageReturned =>
        LET expected_err ==
                IF response \in {"true", "True", "TRUE"} THEN None
                ELSE IF response \in {"false", "FALSE"} THEN "Account is not subscribed"
                ELSE "Incorrect username/password"
        IN  /\ login_err = expected_err
            /\ AkibaDone =>
                   IF /\ expected_err # None
                      /\ requests[Len(requests)].outcome = 200
                      /\ webpage = "<div id=watch-unauthorized>"
                   THEN /\ error = ExtractorError(expected_err, TRUE)
                        /\ ~result.returned
                   ELSE error.msg \notin LoginErrors

\* the login response carried 'FALSE', the watch page stayed unauthorized,
\* and the extraction failed with 'Account is not subscribed'
C9_NotSubscribedWitness ==
    /\ AkibaDone
    /\ response = "FALSE"
    /\ login_err = "Account is not subscribed"
    /\ webpage = "<div id=watch-unauthorized>"
    /\ error = ExtractorError("Account is not subscribed", TRUE)

\* C9 witness: the login POST returned no page and the extraction ended in
\* _login with a TypeError that is not an expected error, before any second
\* download of the watch page.
C9_Witness ==
    /\ AkibaDone
    /\ Issued("login_post")
    /\ requests[Len(requests)].api = "login_post"
    /\ requests[Len(requests)].outcome # 200
    /\ error.kind = "TypeError"
    /\ ~error.expected

----------------------------------------------------------------------------
(* Claims about the channel/site resolver *)

SheetaCall == call \in {"player", "videos", "lives"}

SettingsApi == "site/settings.json"

\* C11: in every extraction call the site settings are fetched exactly once,
\* as the first request of the call and so before any request to the API
\* base URL; every other request of the call goes to the API base URL these
\* settings gave, with the info-site-id set from the first per-channel
\* request on; a later call on the same instance starts with the settings
\* request again although the fields are still set from the earlier call.
C11_SettingsOncePerCall ==
    SheetaCall =>
        /\ requests # << >> => requests[1].api = SettingsApi
        /\ \A i \in DOMAIN requests :
               i > 1 =>
                   /\ requests[i].api # SettingsApi
                   /\ requests[1].outcome = 200
                   /\ requests[i].base # None
                   /\ requests[i].api # "m3u8" =>
                          requests[i].base = SiteSettings(_DOMAIN).api_base_url
        /\ pc \notin {"idle", "settings"} =>
               /\ requests # << >>
               /\ _API_BASE_URL # None
        /\ pc \notin {"idle", "settings", "lookup"} => _FANCLUB_SITE_ID_INFO # None
        /\ \A i \in DOMAIN page_requests : page_requests[i].base # None

\* C11 witness: the second player-page call on an instance whose fields the
\* first call had set has fetched the settings again and gone on to the API.
C11_Witness ==
    /\ call = "player"
    /\ calls = 2
    /\ Len(requests) >= 3
    /\ requests[1].api = SettingsApi
    /\ requests[2].api = "content_providers/channel_domain"
    /\ requests[3].api = "video_pages"

LookupApi == "content_providers/channel_domain"

\* the channel lookup of the call was answered
LookupAnswered ==
    /\ SheetaCall
    /\ Truthy(channel_id)
    /\ Len(requests) >= 2
    /\ requests[2].api = LookupApi
    /\ requests[2].outcome = 200

NoSuchChannel == ExtractorError("Channel kaorin does not exist", TRUE)

\* C12 (as stated): after _extract_base_info the info-site-id is the
\* auth-site-id of the settings when the URL has no channel slug, and the id
\* the channel lookup returned when it has one, for every id the lookup can
\* return; when the lookup returns no id the call fails with the expected
\* error 'Channel <slug> does not exist' and issues no further request.
C12_ResolverResult ==
    /\ (SheetaCall /\ ~Truthy(channel_id) /\ requests # << >>
            /\ requests[1].outcome = 200) =>
           /\ _FANCLUB_SITE_ID_INFO = SiteSettings(_DOMAIN).fanclub_site_id
           /\ _FANCLUB_SITE_ID_INFO = _FANCLUB_SITE_ID_AUTH
    /\ LookupAnswered =>
           IF requests[2].answer # None THEN
               /\ _FANCLUB_SITE_ID_INFO = requests[2].answer
               /\ error # NoSuchChannel
           ELSE
               /\ error = NoSuchChannel
               /\ pc = "idle"
               /\ Len(requests) = 2
               /\ ~result.returned

\* C12, the part that holds: the same, with the id 0 counted among the
\* answers without id: for it too the call fails with 'Channel <slug> does
\* not exist' and issues no further request.
C12_ResolverResultNonZero ==
    /\ (SheetaCall /\ ~Truthy(channel_id) /\ requests # << >>
            /\ requests[1].outcome = 200) =>
           /\ _FANCLUB_SITE_ID_INFO = SiteSettings(_DOMAIN).fanclub_site_id
           /\ _FANCLUB_SITE_ID_INFO = _FANCLUB_SITE_ID_AUTH
    /\ LookupAnswered =>
           IF requests[2].answer \notin {None, "0"} THEN
               /\ _FANCLUB_SITE_ID_INFO = requests[2].answer
               /\ error # NoSuchChannel
           ELSE
               /\ error = NoSuchChannel
               /\ pc = "idle"
               /\ Len(requests) = 2
               /\ ~result.returned

\* C12 witness: the channel lookup answered with the id 0 and the call ended
\* with 'Channel <slug> does not exist'.
C12_Witness ==
    /\ LookupAnswered
    /\ requests[2].answer = "0"
    /\ error = NoSuchChannel
    /\ pc = "idle"

----------------------------------------------------------------------------
(* Claims about the comments *)

HistoryApi == "messages.history"

\* the comment history endpoint answered the request of _get_comments
HistoryAnswered(status) ==
    /\ requests # << >>
    /\ requests[Len(requests)].api = HistoryApi
    /\ requests[Len(requests)].outcome = status

RateLimitWarned ==
    \E k \in DOMAIN signals :
        /\ signals[k].kind = "warning"
        /\ signals[k].msg = "Unable to fetch comments due to rate limit"

----------------------------------------------------------------------------
(* Claims about the season extractor *)

\* the season page was downloaded and each of its items has a link
SeasonPageWithLinks ==
    /\ call = "season"
    /\ requests[1].outcome = 200
    /\ \A i \in DOMAIN season_page.items : season_page.items[i] # None

\* C14: for a season page with N >= 0 collection items, each with a link,
\* the season extractor returns a playlist of exactly N entries in page
\* order, each a URL result for the video extractor of the family, and does
\* not fail for any N.
C14_SeasonPlaylist ==
    SeasonPageWithLinks =>
        /\ error = NoError
        /\ result.returned
        /\ Len(result.entries) = Len(season_page.items)
        /\ \A i \in DOMAIN result.entries :
               /\ result.entries[i].url = season_page.items[i]
               /\ result.entries[i].ie_key \in {"AkibaPassTV", "Dropout"}

\* C14, the part that holds: for a season page without collection items the
\* season extractor returns an empty playlist.
C14_EmptySeasonPlaylist ==
    (SeasonPageWithLinks /\ season_page.items = << >>) =>
        /\ error = NoError
        /\ result.returned
        /\ result.entries = << >>

\* C14 witness: a season page with two linked items was downloaded and the
\* extraction ended with a NameError.
C14_Witness ==
    /\ SeasonPageWithLinks
    /\ Len(season_page.items) = 2
    /\ error.kind = "NameError"
    /\ ~result.returned

----------------------------------------------------------------------------
(* Claims about the order of the AkibaPassTV requests *)

LoginPosts == {i \in DOMAIN requests : requests[i].api = "login_post"}

\* the credentials POST is issued at most once, and only right after a
\* login-page GET that yielded an authenticity token; the watch page is
\* fetched at most twice
LoginOrder ==
    /\ Cardinality(LoginPosts) <= 1
    /\ \A j \in LoginPosts :
           /\ j > 1
           /\ requests[j - 1].api = "login_page"
           /\ requests[j - 1].outcome = 200
           /\ requests[j - 1].answer = "token"
    /\ \A i \in DOMAIN requests :
           (requests[i].api = "login_page"
                /\ (requests[i].outcome # 200 \/ requests[i].answer # "token")) =>
               /\ i = Len(requests)
               /\ pc = "idle"
               /\ error # NoError
    /\ WatchPageFetches <= 2

\* the run had a session cookie and downloaded the watch page first
FirstFetchWithCookie ==
    /\ call = "akiba"
    /\ session_cookie
    /\ requests # << >>
    /\ requests[1].api = "watch_page"
    /\ requests[1].outcome = 200

\* C15 (as stated): the credentials POST is issued at most once and only
\* after the login-page GET yielded a token; with a session cookie and a
\* first watch page that is not marked unauthorized no login request of
\* either kind is issued; the watch page is fetched at most twice.
C15_LoginOnlyWhenUnauthorized ==
    call = "akiba" =>
        /\ LoginOrder
        /\ (FirstFetchWithCookie
                /\ requests[1].answer # "<div id=watch-unauthorized>") =>
               /\ ~Issued("login_page")
               /\ ~Issued("login_post")

\* C15 (amended): the same, with the login requests ruled out only when the
\* first watch page is neither marked unauthorized nor empty: after an empty
\* first page the login flow runs as it does after an unauthorized one, and
\* the watch page is fetched a second time.
C15_LoginOnlyWhenUnauthorizedOrEmpty ==
    call = "akiba" =>
        /\ LoginOrder
        /\ (FirstFetchWithCookie
                /\ requests[1].answer \notin {"", "<div id=watch-unauthorized>"}) =>
               /\ ~Issued("login_page")
               /\ ~Issued("login_post")
               /\ Len(requests) = 1
               /\ pc = "idle"
        /\ (FirstFetchWithCookie /\ requests[1].answer = "" /\ pc = "idle"
                /\ username # None /\ Len(requests) > 1) =>
               requests[2].api = "login_page"

\* C15 witness: with a session cookie, an unauthorized first page and
\* credentials, the run made the login-page GET, one POST and the second
\* fetch of the watch page, in this order.
C15_Witness ==
    /\ FirstFetchWithCookie
    /\ Len(requests) = 4
    /\ requests[2].api = "login_page"
    /\ requests[3].api = "login_post"
    /\ requests[4].api = "watch_page"
    /\ pc = "idle"

\* with a session cookie and an empty first page the run went through the
\* login requests
C15_EmptyPageWitness ==
    /\ FirstFetchWithCookie
    /\ requests[1].answer = ""
    /\ Issued("login_post")

----------------------------------------------------------------------------
(* Claims about the session ticket *)

SessionRequests == {i \in DOMAIN requests : requests[i].api = "session_ids"}

\* the session ticket request was answered without a usable session id:
\* denied, or answered 200 without an id
TicketDeniedOrEmpty(i) ==
    /\ i \in SessionRequests
    /\ \/ requests[i].outcome \in {401, 403, 404, 408}
       \/ requests[i].outcome = 200 /\ requests[i].answer = None

\* a session ticket is requested only for an item with a video part, with
\* the payload {broadcast_type: dvr} exactly for a live item whose status is
\* was_live, and video formats come only from a returned session id
TicketRules ==
    /\ \A i \in SessionRequests :
           /\ data_json.video # None
           /\ requests[i].data =
                  IF data_json.type = "live" /\ live_status = "was_live"
                  THEN "{broadcast_type: dvr}" ELSE "{}"
    /\ (\E k \in DOMAIN formats : formats[k] = "hls") =>
           \E i \in SessionRequests :
               requests[i].outcome = 200 /\ requests[i].answer = "session1"

C16_DeniedWitness ==
    /\ PlayerDone
    /\ data_json.audio # None
    /\ requests[Len(requests)].api = "session_ids"
    /\ requests[Len(requests)].outcome = 403
    /\ error.expected

----------------------------------------------------------------------------
(* Claims about the tokens of a format resolution *)

AccessRequests == {i \in DOMAIN requests : requests[i].api = "content_access"}

\* the positions of a call inside _yield_formats
InYieldFormats == pc \in {"session", "m3u8", "content_access"}

\* every format of the call comes from a token requested in this call
FormatsFromOwnTokens ==
    /\ Cardinality(SessionRequests) <= 1
    /\ Cardinality(AccessRequests) <= 1
    /\ (\E k \in DOMAIN formats : formats[k] = "hls") =>
           \E i \in SessionRequests :
               requests[i].outcome = 200 /\ requests[i].answer = "session1"
    /\ (\E k \in DOMAIN formats : formats[k] # "hls") =>
           \E i \in AccessRequests : requests[i].outcome = 200
    /\ m3u8_url # None => AccessRequests # {}

\* C17: a format resolution requests at most one session ticket and at most
\* one content-access resource, every format it yields comes from a token
\* requested in the same call (a second resolution on the instance requests
\* its own), and no step of it changes an instance field.
C17_TokensPerResolution ==
    /\ [](call = "player" => FormatsFromOwnTokens)
    /\ [][InYieldFormats =>
            /\ _DOMAIN' = _DOMAIN
            /\ _API_BASE_URL' = _API_BASE_URL
            /\ _FANCLUB_GROUP_ID' = _FANCLUB_GROUP_ID
            /\ _FANCLUB_SITE_ID_AUTH' = _FANCLUB_SITE_ID_AUTH
            /\ _FANCLUB_SITE_ID_INFO' = _FANCLUB_SITE_ID_INFO]_vars

\* C17 witness: the second player-page call on the instance requested a
\* session ticket and a content-access resource of its own and yielded both
\* formats.
C17_Witness ==
    /\ call = "player"
    /\ calls = 2
    /\ Cardinality(SessionRequests) = 1
    /\ Cardinality(AccessRequests) = 1
    /\ Len(formats) = 2
    /\ formats[1] = "hls"

----------------------------------------------------------------------------
(* Claims about a list consumed on a shared instance *)

\* the URL result of the k-th item of the list for the domain and channel
\* of the URL the list was created from
ListEntryUrl(k) ==
    IF playlist.url.channel # None
    THEN "https://" \o playlist.url.domain \o "/" \o playlist.url.channel
             \o "/video/sm" \o ToString(k)
    ELSE "https://" \o playlist.url.domain \o "/video/sm" \o ToString(k)

\* C18: every page request of a lazily consumed list is sent to the API base
\* URL, and every entry URL uses the domain, that the call which created the
\* list resolved, also when another extraction call on the instance ran
\* between the creation of the list and the page fetch.
C18_ListKeepsItsSite ==
    list_state # "none" =>
        /\ \A i \in DOMAIN page_requests :
               page_requests[i].base = SiteSettings(playlist.url.domain).api_base_url
        /\ \A k \in DOMAIN entries : entries[k] = ListEntryUrl(k)

\* C18, the part that holds: a list consumed before any other call ran on
\* the instance sends its page requests to the API base URL of its own call
\* and builds its entries on its own domain.
C18_ListKeepsItsSiteWhenAlone ==
    (list_state # "none" /\ calls = 1) =>
        /\ \A i \in DOMAIN page_requests :
               page_requests[i].base = SiteSettings(playlist.url.domain).api_base_url
        /\ \A k \in DOMAIN entries : entries[k] = ListEntryUrl(k)

\* C18 witness: a list created for one domain fetched a page after a call
\* for another domain had run; the request went to the other domain's API
\* base URL and the entry was built on the other domain.
C18_Witness ==
    /\ list_state = "open"
    /\ calls = 2
    /\ pc = "idle"
    /\ playlist.url.domain = "nicochannel.jp"
    /\ Len(page_requests) = 1
    /\ page_requests[1].base = SiteSettings("qlover.jp").api_base_url
    /\ Len(entries) = 1
    /\ entries[1] # ListEntryUrl(1)

----------------------------------------------------------------------------
(* Claims about items that have not started *)

Upcoming == call = "player" /\ live_status = "is_upcoming"

\* C19: for an item classified is_upcoming the player-page call issues no
\* session ticket request and no content access request, whether the
\* no-formats condition is raised as an error or reported as a warning.
C19_UpcomingRequestsNoTokens ==
    Upcoming =>
        /\ SessionRequests = {}
        /\ AccessRequests = {}

\* C19, the part that holds: when the no-formats condition is raised as an
\* error, the call of an upcoming item ends with the video page request as
\* its last request, and no token is requested.
C19_UpcomingRaisedRequestsNoTokens ==
    (Upcoming /\ ~ignore_no_formats_error) =>
        /\ SessionRequests = {}
        /\ AccessRequests = {}
        /\ pc = "idle"
        /\ error.expected
        /\ requests[Len(requests)].api = "video_pages"

\* C19 witness: with the no-formats condition only a warning, the call of an
\* upcoming item with a video part went on to request a session ticket.
C19_Witness ==
    /\ Upcoming
    /\ ignore_no_formats_error
    /\ \E k \in DOMAIN signals : signals[k].kind = "no_formats" /\ ~signals[k].raised
    /\ requests[Len(requests)].api = "session_ids"

----------------------------------------------------------------------------
(* Claims about the URL dispatch *)

Dispatched == calls = 1 /\ SiteUrl

\* C20: a URL with the path [/<channel>]/(live|video|audio)/<content code>
\* goes to the player-page extraction, [/<channel>]/videos to the video list
\* and [/<channel>]/lives to the live list, for every channel slug, those
\* beginning with 'videos' or 'lives' included, and the slug the selected
\* extraction parsed is the slug of the URL.
C20_DispatchByPage ==
    Dispatched =>
        /\ call = (IF url.tail[1] \in {"videos", "lives"} THEN url.tail[1] ELSE "player")
        /\ channel_id = url.channel
        /\ _DOMAIN = url.domain
        /\ call = "player" => content_code = url.tail[2]
        /\ error = NoError

\* C20, the part that holds: the same for every URL none of whose path
\* segments in front of the page segment begins with 'videos' or 'lives'.
C20_DispatchByPageForPlainSlugs ==
    (Dispatched /\ url.channel \in {None, "kaorin"}) =>
        /\ call = (IF url.tail[1] \in {"videos", "lives"} THEN url.tail[1] ELSE "player")
        /\ channel_id = url.channel
        /\ _DOMAIN = url.domain
        /\ call = "player" => content_code = url.tail[2]
        /\ error = NoError

\* C20 witness: the player page of a channel whose slug begins with 'videos'
\* was handed to the video list extraction, which parsed no channel slug.
C20_Witness ==
    /\ Dispatched
    /\ url.channel = "videos-ch"
    /\ url.tail[1] = "video"
    /\ call = "videos"
    /\ channel_id = None

====
